---- MODULE Spec2Model ----
\* Model of app.py: a background thread (stream_data) replays a dataset one
\* reading per tick, classifies each reading with a z-score test over the last
\* 50 readings, and commits the result under a lock; Flask handlers (get_data,
\* get_metrics) read the shared lists under the same lock.
\*
\* Arithmetic: readings carry integer 'Current' values and every quotient the
\* code forms is kept as an exact fraction <<numerator, denominator>>.  The
\* standard deviation is carried by its square (the sample variance), so that
\* abs(z) > z_threshold is decided as z^2 > z_threshold^2 without a root.
EXTENDS Integers, Sequences, FiniteSets, TLC

\* ------------------------------------------------------------------ bounds
MaxLen == 102            \* longest dataset replayed (must exceed RecentN)
NumReaders == 1          \* concurrent request handlers
MaxTotalTime == 1        \* cap on the accumulated processing time (ms units)

\* ------------------------------------------------------- program constants
WindowSize == 50         \* app.py:91,93  "> 50", "[-50:]"
RecentN == 100           \* app.py:133-134  "[-100:]"
ZThresholdNum == 23      \* app.py:19  z_threshold = 2.3 = 23/10
ZThresholdDen == 10
EngineThread == 0        \* app.py:167  data_thread

Readers == 1..NumReaders

\* ------------------------------------------------------------- the dataset
\* load_dataset() returns the rows of the file as a list of
\* {'datetime', 'Current'} records, or ends the calling thread with exit(1).
Reading(t, v) == [datetime |-> t, Current |-> v]

\* L rows of value a, a+d, a, a+d, ... with one reading of value b at row p
Gen(L, a, d, b, p) ==
    [i \in 1..L |-> Reading(i, IF i = p THEN b ELSE a + d * ((i - 1) % 2))]

\* 51 rows whose last 50 values put the 51st exactly at z = 2.3:
\* 3 x 0, 25 x 5, 13 x 1, 8 x 3 and the candidate 8
TieRows ==
    [i \in 1..51 |-> Reading(i, IF i = 1 THEN 3
                                ELSE IF i <= 4 THEN 0
                                ELSE IF i <= 29 THEN 5
                                ELSE IF i <= 42 THEN 1
                                ELSE IF i <= 50 THEN 3
                                ELSE 8)]

Shapes == { <<1, 0, 50>>, <<5, 0, 100>>, <<1, 1, 4>> }
SrcLens == {0, 1, 2, 51, 61}
SpikePos == {0, 50, 51, 52, 61}

Sources ==
    { Gen(L, sh[1], sh[2], sh[3], p) : L \in SrcLens, sh \in Shapes, p \in SpikePos }
        \cup { Gen(MaxLen, sh[1], sh[2], sh[3], p) : sh \in Shapes, p \in {0, MaxLen} }
        \cup {TieRows}

Files == { [ok |-> TRUE, rows |-> s] : s \in Sources }
            \cup { [ok |-> FALSE, rows |-> << >>] }

\* ----------------------------------------------------------------- helpers
Min(a, b) == IF a <= b THEN a ELSE b

\* fault variant of LastN: the slice starts one element early (s[-(n+1):])
LastN_OffByOne(s, n) ==
    IF Len(s) <= n + 1 THEN s ELSE SubSeq(s, Len(s) - n, Len(s))

\* python s[-n:]
LastN(s, n) == IF Len(s) <= n THEN s ELSE SubSeq(s, Len(s) - n + 1, Len(s))

RECURSIVE SumSeq(_)
SumSeq(s) == IF s = << >> THEN 0 ELSE s[1] + SumSeq(Tail(s))

\* [d['Current'] for d in s]
Currents(s) == [i \in 1..Len(s) |-> s[i].Current]

\* exact comparison a/b > c/d of non-negative fractions (b, d > 0) by their
\* continued fractions, so that no product leaves the integer range
RECURSIVE RatGT(_, _, _, _)
RatGT(a, b, c, d) ==
    LET qa == a \div b
        qc == c \div d
        ra == a % b
        rc == c % d
    IN  IF qa # qc THEN qa > qc
        ELSE IF ra = 0 THEN FALSE
        ELSE IF rc = 0 THEN TRUE
        ELSE RatGT(d, rc, b, ra)

\* equality of fractions <<n, d>>
RatEq(x, y) == x[1] * y[2] = y[1] * x[2]

\* ---------------------------------------------------------------- detector
\* mean = sum(current_values) / len(current_values)
Mean(cv) == << SumSeq(cv), Len(cv) >>

\* pd.Series(current_values).std(): sample standard deviation (ddof = 1),
\* carried as its square  sum((x - mean)^2) / (n - 1)
\*    = sum((n*x - S)^2) / (n^2 * (n - 1))
StdSq(cv) ==
    LET n == Len(cv)
        S == SumSeq(cv)
    IN  << SumSeq([i \in 1..n |-> (n * cv[i] - S) * (n * cv[i] - S)]),
           n * n * (n - 1) >>

\* calculate_z_score(value, mean, std), carried as z^2:
\* 0 when std == 0, else ((value - mean) / std)^2
\*    = (n - 1) * (n*value - S)^2 / sum((n*x - S)^2)      with mean = S/n
calculate_z_score(value, mean, stdSq) ==
    IF stdSq[1] = 0 THEN << 0, 1 >>
    ELSE LET dev == mean[2] * value - mean[1]
         IN  << (mean[2] - 1) * dev * dev, stdSq[1] >>

\* fault variant of ExceedsThreshold: abs(z_score) >= z_threshold
ExceedsThreshold_NonStrict(zSq) ==
    ~ RatGT(ZThresholdNum * ZThresholdNum, ZThresholdDen * ZThresholdDen, zSq[1], zSq[2])

\* abs(z_score) > z_threshold
ExceedsThreshold(zSq) ==
    RatGT(zSq[1], zSq[2], ZThresholdNum * ZThresholdNum, ZThresholdDen * ZThresholdDen)

\* fault variant of TrailingWindow: the 50 readings before the current one
\* (data_stream[-51:-1])
TrailingWindow_PriorOnly(stream) ==
    Currents(LastN(SubSeq(stream, 1, Len(stream) - 1), WindowSize))

\* data_stream[-50:] taken after the append of the current reading
TrailingWindow(stream) == Currents(LastN(stream, WindowSize))

\* fault variant of HasHistory: len(data_stream) >= 50
HasHistory_OffByOne(stream) == Len(stream) >= WindowSize

\* len(data_stream) > 50
HasHistory(stream) == Len(stream) > WindowSize

\* the flag appended by lines 91-105 for the reading just appended to stream
ClassifyFlag(stream, point) ==
    IF HasHistory(stream)
    THEN LET cv == TrailingWindow(stream)
             z == calculate_z_score(point.Current, Mean(cv), StdSq(cv))
         IN  IF ExceedsThreshold(z) THEN 1 ELSE 0
    ELSE 0

\* ------------------------------------------------------------------- state
VARIABLES
    dataset,                \* the file behind selected_dataset
    data,                   \* app.py:48
    data_stream,            \* app.py:12
    anomaly_flags,          \* app.py:13
    current_index,          \* app.py:14
    lock,                   \* app.py:15: the set of threads inside "with lock"
    total_processing_time,  \* app.py:22
    processed_points,       \* app.py:23
    epc,                    \* position of the stream_data thread
    data_point,             \* stream_data local
    current_values,         \* stream_data local
    rpc,                    \* position of each request handler
    response_data,          \* get_data local
    metrics                 \* get_metrics locals

vars == << dataset, data, data_stream, anomaly_flags, current_index, lock,
           total_processing_time, processed_points, epc, data_point,
           current_values, rpc, response_data, metrics >>

shared == << data_stream, anomaly_flags, current_index,
             total_processing_time, processed_points >>
engineLocals == << epc, data_point, current_values >>
readerVars == << rpc, response_data, metrics >>

NoPoint == Reading(0, 0)
NoResponse == [data_points |-> << >>, anomaly_flags |-> << >>]
NoMetrics == [total_points |-> 0, anomalies_detected |-> 0,
              average_processing_time |-> << 0, 1 >>,
              average_current_value |-> << 0, 1 >>]

Init ==
    /\ dataset \in Files
    /\ data = << >>
    /\ data_stream = << >>
    /\ anomaly_flags = << >>
    /\ current_index = 0
    /\ lock = {}
    /\ total_processing_time = 0
    /\ processed_points = 0
    /\ epc = "outer"
    /\ data_point = NoPoint
    /\ current_values = << >>
    /\ rpc = [r \in Readers |-> "idle"]
    /\ response_data = [r \in Readers |-> NoResponse]
    /\ metrics = [r \in Readers |-> NoMetrics]

\* ---------------------------------------------------- the stream_data thread
\* lines 74-77: if not data: data = load_dataset()
EngineOuter ==
    /\ epc = "outer"
    /\ IF data = << >>
       THEN IF dataset.ok
            THEN data' = dataset.rows /\ epc' = "test"
            ELSE data' = data /\ epc' = "exited"
       ELSE data' = data /\ epc' = "test"
    /\ UNCHANGED << dataset, shared, lock, data_point, current_values, readerVars >>

\* line 80: while current_index < len(data)
EngineTest ==
    /\ epc = "test"
    /\ epc' = IF current_index < Len(data) THEN "sleep" ELSE "reset_lock"
    /\ UNCHANGED << dataset, data, shared, lock, data_point, current_values, readerVars >>

\* line 81: time.sleep(0.1)
EngineSleep ==
    /\ epc = "sleep"
    /\ epc' = "fetch"
    /\ UNCHANGED << dataset, data, shared, lock, data_point, current_values, readerVars >>

\* fault variant of EngineFetch: the reading before the cursor is taken
\* (data[current_index - 1], which for index 0 is the last row)
EngineFetch_Previous ==
    /\ epc = "fetch"
    /\ data_point' = data[IF current_index = 0 THEN Len(data) ELSE current_index]
    /\ epc' = "tick_lock"
    /\ UNCHANGED << dataset, data, shared, lock, current_values, readerVars >>

\* line 82: data_point = data[current_index]
EngineFetch ==
    /\ epc = "fetch"
    /\ data_point' = data[current_index + 1]
    /\ epc' = "tick_lock"
    /\ UNCHANGED << dataset, data, shared, lock, current_values, readerVars >>

\* fault variant of EngineLock: the tick runs without taking the lock
EngineLock_NoMutex ==
    /\ epc = "tick_lock"
    /\ epc' = "append"
    /\ UNCHANGED << dataset, data, shared, lock, data_point, current_values, readerVars >>

\* line 84: with lock (entry)
EngineLock ==
    /\ epc = "tick_lock"
    /\ lock = {}
    /\ lock' = {EngineThread}
    /\ epc' = "append"
    /\ UNCHANGED << dataset, data, shared, data_point, current_values, readerVars >>

\* line 88: data_stream.append(data_point)
EngineAppend ==
    /\ epc = "append"
    /\ data_stream' = Append(data_stream, data_point)
    /\ epc' = "classify"
    /\ UNCHANGED << dataset, data, anomaly_flags, current_index, lock,
                    total_processing_time, processed_points, data_point,
                    current_values, readerVars >>

\* lines 91-105
EngineClassify ==
    /\ epc = "classify"
    /\ current_values' = IF HasHistory(data_stream)
                         THEN TrailingWindow(data_stream)
                         ELSE current_values
    /\ anomaly_flags' = Append(anomaly_flags, ClassifyFlag(data_stream, data_point))
    /\ epc' = "stats"
    /\ UNCHANGED << dataset, data, data_stream, current_index, lock,
                    total_processing_time, processed_points, data_point, readerVars >>

\* fault variant of EngineStats: the lock is still held when the loop goes on
\* (the loop test and the sleep inside the with block)
EngineStats_KeepsLock ==
    /\ epc = "stats"
    /\ \E processing_time \in 0..(MaxTotalTime - total_processing_time) :
           total_processing_time' = total_processing_time + processing_time
    /\ processed_points' = processed_points + 1
    /\ current_index' = current_index + 1
    /\ epc' = "test"
    /\ UNCHANGED << dataset, data, data_stream, anomaly_flags, lock, data_point,
                    current_values, readerVars >>

\* lines 107-113 and the exit of the with block
EngineStats ==
    /\ epc = "stats"
    /\ \E processing_time \in 0..(MaxTotalTime - total_processing_time) :
           total_processing_time' = total_processing_time + processing_time
    /\ processed_points' = processed_points + 1
    /\ current_index' = current_index + 1
    /\ lock' = lock \ {EngineThread}
    /\ epc' = "test"
    /\ UNCHANGED << dataset, data, data_stream, anomaly_flags, data_point,
                    current_values, readerVars >>

\* fault variant of EngineResetLock: the reset runs without taking the lock
EngineResetLock_NoMutex ==
    /\ epc = "reset_lock"
    /\ epc' = "reset"
    /\ UNCHANGED << dataset, data, shared, lock, data_point, current_values, readerVars >>

\* line 116: with lock (entry)
EngineResetLock ==
    /\ epc = "reset_lock"
    /\ lock = {}
    /\ lock' = {EngineThread}
    /\ epc' = "reset"
    /\ UNCHANGED << dataset, data, shared, data_point, current_values, readerVars >>

\* fault variant of EngineReset: processed_points is not zeroed
EngineReset_KeepsCount ==
    /\ epc = "reset"
    /\ current_index' = 0
    /\ data_stream' = << >>
    /\ anomaly_flags' = << >>
    /\ total_processing_time' = 0
    /\ processed_points' = processed_points
    /\ lock' = lock \ {EngineThread}
    /\ epc' = "outer"
    /\ UNCHANGED << dataset, data, data_point, current_values, readerVars >>

\* fault variant of EngineReset: total_processing_time is not zeroed
EngineReset_KeepsTime ==
    /\ epc = "reset"
    /\ current_index' = 0
    /\ data_stream' = << >>
    /\ anomaly_flags' = << >>
    /\ total_processing_time' = total_processing_time
    /\ processed_points' = 0
    /\ lock' = lock \ {EngineThread}
    /\ epc' = "outer"
    /\ UNCHANGED << dataset, data, data_point, current_values, readerVars >>

\* fault variant of EngineReset: current_index is not set back
EngineReset_KeepsIndex ==
    /\ epc = "reset"
    /\ current_index' = current_index
    /\ data_stream' = << >>
    /\ anomaly_flags' = << >>
    /\ total_processing_time' = 0
    /\ processed_points' = 0
    /\ lock' = lock \ {EngineThread}
    /\ epc' = "outer"
    /\ UNCHANGED << dataset, data, data_point, current_values, readerVars >>

\* fault variant of EngineReset: data_stream is not emptied
EngineReset_KeepsStream ==
    /\ epc = "reset"
    /\ current_index' = 0
    /\ data_stream' = data_stream
    /\ anomaly_flags' = << >>
    /\ total_processing_time' = 0
    /\ processed_points' = 0
    /\ lock' = lock \ {EngineThread}
    /\ epc' = "outer"
    /\ UNCHANGED << dataset, data, data_point, current_values, readerVars >>

\* lines 117-121 and the exit of the with block
EngineReset ==
    /\ epc = "reset"
    /\ current_index' = 0
    /\ data_stream' = << >>
    /\ anomaly_flags' = << >>
    /\ total_processing_time' = 0
    /\ processed_points' = 0
    /\ lock' = lock \ {EngineThread}
    /\ epc' = "outer"
    /\ UNCHANGED << dataset, data, data_point, current_values, readerVars >>

\* -------------------------------------------------------- request handlers
\* line 131: with lock (entry)
GetDataEnter(r) ==
    /\ rpc[r] = "idle"
    /\ lock = {}
    /\ lock' = {r}
    /\ rpc' = [rpc EXCEPT ![r] = "get_data"]
    /\ UNCHANGED << dataset, data, shared, engineLocals, response_data, metrics >>

\* fault variant of GetDataBuild: the handler trims the shared lists to the
\* last 100 entries in place before answering
GetDataBuild_Truncates(r) ==
    /\ rpc[r] = "get_data"
    /\ data_stream' = LastN(data_stream, RecentN)
    /\ anomaly_flags' = LastN(anomaly_flags, RecentN)
    /\ response_data' = [response_data EXCEPT ![r] =
           [data_points |-> data_stream', anomaly_flags |-> anomaly_flags']]
    /\ rpc' = [rpc EXCEPT ![r] = "data_built"]
    /\ UNCHANGED << dataset, data, current_index, total_processing_time,
                    processed_points, lock, engineLocals, metrics >>

\* lines 132-135
GetDataBuild(r) ==
    /\ rpc[r] = "get_data"
    /\ response_data' = [response_data EXCEPT ![r] =
           [data_points |-> LastN(data_stream, RecentN),
            anomaly_flags |-> LastN(anomaly_flags, RecentN)]]
    /\ rpc' = [rpc EXCEPT ![r] = "data_built"]
    /\ UNCHANGED << dataset, data, shared, lock, engineLocals, metrics >>

\* fault variant of GetDataReturn: the handler returns without releasing the
\* lock
GetDataReturn_KeepsLock(r) ==
    /\ rpc[r] = "data_built"
    /\ response_data' = [response_data EXCEPT ![r] = NoResponse]
    /\ rpc' = [rpc EXCEPT ![r] = "idle"]
    /\ UNCHANGED << dataset, data, shared, lock, engineLocals, metrics >>

\* exit of the with block and line 136: return jsonify(response_data)
GetDataReturn(r) ==
    /\ rpc[r] = "data_built"
    /\ lock' = lock \ {r}
    /\ response_data' = [response_data EXCEPT ![r] = NoResponse]
    /\ rpc' = [rpc EXCEPT ![r] = "idle"]
    /\ UNCHANGED << dataset, data, shared, engineLocals, metrics >>

\* fault variant of AverageCurrentValue: floor division (//)
AverageCurrentValue_FloorDiv(stream, total_points) ==
    IF total_points > 0 THEN << SumSeq(Currents(stream)) \div total_points, 1 >>
    ELSE << 0, 1 >>

\* sum(float(d['Current']) for d in data_stream) / total_points, or 0.0
AverageCurrentValue(stream, total_points) ==
    IF total_points > 0 THEN << SumSeq(Currents(stream)), total_points >>
    ELSE << 0, 1 >>

\* total_processing_time / processed_points, or 0.0
AverageProcessingTime(total, processed) ==
    IF processed > 0 THEN << total, processed >> ELSE << 0, 1 >>

\* fault variant of GetMetricsEnter: the handler reads without taking the lock
GetMetricsEnter_NoLock(r) ==
    /\ rpc[r] = "idle"
    /\ metrics' = [metrics EXCEPT ![r] = NoMetrics]
    /\ rpc' = [rpc EXCEPT ![r] = "m151"]
    /\ UNCHANGED << dataset, data, shared, lock, engineLocals, response_data >>

\* line 150: with lock (entry)
GetMetricsEnter(r) ==
    /\ rpc[r] = "idle"
    /\ lock = {}
    /\ lock' = {r}
    /\ metrics' = [metrics EXCEPT ![r] = NoMetrics]
    /\ rpc' = [rpc EXCEPT ![r] = "m151"]
    /\ UNCHANGED << dataset, data, shared, engineLocals, response_data >>

\* line 151
GetMetricsTotal(r) ==
    /\ rpc[r] = "m151"
    /\ metrics' = [metrics EXCEPT ![r].total_points = Len(data_stream)]
    /\ rpc' = [rpc EXCEPT ![r] = "m152"]
    /\ UNCHANGED << dataset, data, shared, lock, engineLocals, response_data >>

\* line 152
GetMetricsAnomalies(r) ==
    /\ rpc[r] = "m152"
    /\ metrics' = [metrics EXCEPT ![r].anomalies_detected = SumSeq(anomaly_flags)]
    /\ rpc' = [rpc EXCEPT ![r] = "m153"]
    /\ UNCHANGED << dataset, data, shared, lock, engineLocals, response_data >>

\* line 153
GetMetricsTime(r) ==
    /\ rpc[r] = "m153"
    /\ metrics' = [metrics EXCEPT ![r].average_processing_time =
           AverageProcessingTime(total_processing_time, processed_points)]
    /\ rpc' = [rpc EXCEPT ![r] = "m154"]
    /\ UNCHANGED << dataset, data, shared, lock, engineLocals, response_data >>

\* line 154
GetMetricsValue(r) ==
    /\ rpc[r] = "m154"
    /\ metrics' = [metrics EXCEPT ![r].average_current_value =
           AverageCurrentValue(data_stream, metrics[r].total_points)]
    /\ rpc' = [rpc EXCEPT ![r] = "metrics_built"]
    /\ UNCHANGED << dataset, data, shared, lock, engineLocals, response_data >>

\* exit of the with block and lines 156-162: return jsonify(metrics)
GetMetricsReturn(r) ==
    /\ rpc[r] = "metrics_built"
    /\ lock' = lock \ {r}
    /\ metrics' = [metrics EXCEPT ![r] = NoMetrics]
    /\ rpc' = [rpc EXCEPT ![r] = "idle"]
    /\ UNCHANGED << dataset, data, shared, engineLocals, response_data >>

\* ----------------------------------------------- accesses to the shared state
\* the shared fields the engine's next step reads
EngineReads ==
    CASE epc = "test" -> {"current_index"}                      \* line 80
      [] epc = "fetch" -> {"current_index"}                     \* line 82
      [] epc = "append" -> {"data_stream"}                      \* line 88
      [] epc = "classify" -> {"data_stream", "anomaly_flags"}   \* lines 91-105
      [] epc = "stats" -> {"total_processing_time", "processed_points",
                           "current_index"}                     \* lines 110-113
      [] OTHER -> {}

\* the shared fields the engine's next step writes
EngineWrites ==
    CASE epc = "append" -> {"data_stream"}                      \* line 88
      [] epc = "classify" -> {"anomaly_flags"}                  \* lines 102, 105
      [] epc = "stats" -> {"total_processing_time", "processed_points",
                           "current_index"}                     \* lines 110-113
      [] epc = "reset" -> {"current_index", "data_stream", "anomaly_flags",
                           "total_processing_time", "processed_points"} \* 117-121
      [] OTHER -> {}

\* the shared fields the next step of handler r reads (handlers write none)
ReaderReads(r) ==
    CASE rpc[r] = "get_data" -> {"data_stream", "anomaly_flags"}        \* 133-134
      [] rpc[r] = "m151" -> {"data_stream"}                             \* line 151
      [] rpc[r] = "m152" -> {"anomaly_flags"}                           \* line 152
      [] rpc[r] = "m153" -> {"total_processing_time", "processed_points"} \* 153
      [] rpc[r] = "m154" -> {"data_stream"}                             \* line 154
      [] OTHER -> {}

Next ==
    \/ EngineOuter
    \/ EngineTest
    \/ EngineSleep
    \/ EngineFetch
    \/ EngineLock
    \/ EngineAppend
    \/ EngineClassify
    \/ EngineStats
    \/ EngineResetLock
    \/ EngineReset
    \/ \E r \in Readers : GetDataEnter(r)
    \/ \E r \in Readers : GetDataBuild(r)
    \/ \E r \in Readers : GetDataReturn(r)
    \/ \E r \in Readers : GetMetricsEnter(r)
    \/ \E r \in Readers : GetMetricsTotal(r)
    \/ \E r \in Readers : GetMetricsAnomalies(r)
    \/ \E r \in Readers : GetMetricsTime(r)
    \/ \E r \in Readers : GetMetricsValue(r)
    \/ \E r \in Readers : GetMetricsReturn(r)

Spec == Init /\ [][Next]_vars

\* ------------------------------------------------------- fair scheduling
\* bound on the datasets replayed under LiveSpec
LiveMaxLen == 3

LiveFiles == { [ok |-> TRUE, rows |-> Gen(L, 1, 1, 4, 0)] : L \in 0..LiveMaxLen }
                \cup { [ok |-> FALSE, rows |-> << >>] }

LiveInit ==
    /\ dataset \in LiveFiles
    /\ data = << >>
    /\ data_stream = << >>
    /\ anomaly_flags = << >>
    /\ current_index = 0
    /\ lock = {}
    /\ total_processing_time = 0
    /\ processed_points = 0
    /\ epc = "outer"
    /\ data_point = NoPoint
    /\ current_values = << >>
    /\ rpc = [r \in Readers |-> "idle"]
    /\ response_data = [r \in Readers |-> NoResponse]
    /\ metrics = [r \in Readers |-> NoMetrics]

\* the steps of stream_data that wait for nothing
EngineProgress ==
    \/ EngineOuter
    \/ EngineTest
    \/ EngineSleep
    \/ EngineFetch
    \/ EngineAppend
    \/ EngineClassify
    \/ EngineStats
    \/ EngineReset

\* the steps of a handler that is inside its with block
ReaderProgress(r) ==
    \/ GetDataBuild(r)
    \/ GetDataReturn(r)
    \/ GetMetricsTotal(r)
    \/ GetMetricsAnomalies(r)
    \/ GetMetricsTime(r)
    \/ GetMetricsValue(r)
    \/ GetMetricsReturn(r)

\* every runnable thread runs in the end; the engine, waiting for a lock that
\* is free again and again, gets it in the end; requests arrive at will
LiveSpec ==
    /\ LiveInit
    /\ [][Next]_vars
    /\ WF_vars(EngineProgress)
    /\ SF_vars(EngineLock)
    /\ SF_vars(EngineResetLock)
    /\ \A r \in Readers : WF_vars(ReaderProgress(r))

\* ------------------------------------------------------------ properties
\* a reader can observe the shared state when the engine is outside "with lock"
Observable == EngineThread \notin lock

\* the engine has just committed a flag for the newest reading (lines 91-105
\* done, lines 107-113 pending)
JustClassified == epc = "stats"

\* the 1-based position in data_stream of the reading just classified
Newest == Len(data_stream)

\* C1: whenever the engine does not hold the lock, anomaly_flags and
\* data_stream have the same length
C1_FlagsAligned == Observable => Len(anomaly_flags) = Len(data_stream)

\* a reader holds the lock in a cycle that has committed readings
C1_Witness ==
    /\ \E r \in Readers : r \in lock
    /\ Len(data_stream) > WindowSize
    /\ Len(anomaly_flags) = Len(data_stream)

\* C2 as claimed: once the last reading of the source is committed, a reader
\* that gets the lock sees an empty data_stream and processed_points = 0
C2_RestartAtomicWithLastCommit ==
    \A r \in Readers :
        (r \in lock /\ Len(data) > 0 /\ current_index = Len(data))
            => (data_stream = << >> /\ processed_points = 0)

\* C2 amended: the reset is one critical section, so a reader never sees it
\* half done: data_stream, anomaly_flags, current_index and processed_points
\* are empty/zero together, total_processing_time is zero with them, the
\* state after a reset is empty, and the state before a pending reset is the
\* complete cycle (which a reader can see)
C2_ResetAtomic ==
    Observable =>
        /\ (data_stream = << >>) <=> (processed_points = 0)
        /\ (data_stream = << >>) <=> (current_index = 0)
        /\ (data_stream = << >>) <=> (anomaly_flags = << >>)
        /\ (data_stream = << >>) => (total_processing_time = 0)
        /\ (epc = "outer") => (data_stream = << >> /\ processed_points = 0)
        /\ (epc = "reset_lock") =>
               (Len(data_stream) = Len(data) /\ processed_points = Len(data))

\* a reader takes a snapshot right after a reset of a non-empty source
C2_Witness ==
    /\ epc = "outer"
    /\ Len(data) > 0
    /\ \E r \in Readers :
           /\ rpc[r] = "data_built"
           /\ response_data[r].data_points = << >>

C4_FlatPriorWindowNotFlagged ==
    (JustClassified /\ Newest - 1 > WindowSize
        /\ \A j \in (Newest - WindowSize)..(Newest - 1) :
               data_stream[j].Current = data_stream[Newest - 1].Current)
        => anomaly_flags[Newest] = 0

\* C5 as claimed: the statistics of a classified reading are taken over the
\* 50 readings before it
C5_WindowExcludesCandidate ==
    (JustClassified /\ Newest > WindowSize)
        => current_values =
               Currents(SubSeq(data_stream, Newest - WindowSize, Newest - 1))

\* sum of the values, and of their squares, of the 50 readings ending with
\* the newest
WinSum == SumSeq([k \in 1..WindowSize |-> data_stream[Newest - WindowSize + k].Current])
WinSumSq ==
    SumSeq([k \in 1..WindowSize |->
        data_stream[Newest - WindowSize + k].Current
            * data_stream[Newest - WindowSize + k].Current])
\* n^2 (n - 1) var = n * sum(x^2) - (sum x)^2 over those 50 values
WinSpread == WindowSize * WinSumSq - WinSum * WinSum
\* (n * candidate - sum x)^2 * (n - 1)
WinDevSq ==
    (WindowSize - 1)
        * (WindowSize * data_stream[Newest].Current - WinSum)
        * (WindowSize * data_stream[Newest].Current - WinSum)

\* C6: a reading classified with history and non-zero deviation is flagged
\* iff |candidate - mean| / std > 2.3 strictly, mean and sample std (n - 1)
\* taken over exactly 50 values:
\*   z^2 = (n - 1)(n v - S)^2 / (n (n Q - S^2))  >  (23/10)^2
C6_FlagIffZExceeds ==
    (JustClassified /\ Newest > WindowSize /\ WinSpread # 0)
        => /\ Len(current_values) = WindowSize
           /\ (anomaly_flags[Newest] = 1) <=>
                  RatGT(WinDevSq, WindowSize * WinSpread,
                        ZThresholdNum * ZThresholdNum, ZThresholdDen * ZThresholdDen)
           /\ anomaly_flags[Newest] \in {0, 1}

\* a reading whose z is exactly 2.3 was committed unflagged
C6_Witness ==
    /\ JustClassified
    /\ Newest > WindowSize
    /\ WinSpread # 0
    /\ ~ RatGT(WinDevSq, WindowSize * WinSpread,
               ZThresholdNum * ZThresholdNum, ZThresholdDen * ZThresholdDen)
    /\ ~ RatGT(ZThresholdNum * ZThresholdNum, ZThresholdDen * ZThresholdDen,
               WinDevSq, WindowSize * WinSpread)
    /\ anomaly_flags[Newest] = 0

\* C7: when the first 50 readings of a cycle are 1 and the 51st is 50, the
\* flag committed for the 51st is 1
C7_SharpOutlierFlagged ==
    (Observable /\ Len(anomaly_flags) >= WindowSize + 1
        /\ (\A i \in 1..WindowSize : data_stream[i].Current = 1)
        /\ data_stream[WindowSize + 1].Current = 50)
        => anomaly_flags[WindowSize + 1] = 1

\* that cycle, with its 51st reading committed
C7_Witness ==
    /\ Observable
    /\ Len(anomaly_flags) >= WindowSize + 1
    /\ \A i \in 1..WindowSize : data_stream[i].Current = 1
    /\ data_stream[WindowSize + 1].Current = 50
    /\ anomaly_flags[WindowSize + 1] = 1

\* C8: get_data returns the last min(100, len(data_stream)) readings in
\* order, with the flags at the same positions
C8_RecentAligned ==
    \A r \in Readers :
        rpc[r] = "data_built" =>
            LET dp == response_data[r].data_points
                af == response_data[r].anomaly_flags
                k == Len(dp)
            IN  /\ k = Min(RecentN, Len(data_stream))
                /\ Len(af) = k
                /\ \A i \in 1..k :
                       /\ dp[i] = data_stream[Len(data_stream) - k + i]
                       /\ af[i] = anomaly_flags[Len(data_stream) - k + i]

\* a response cut to 100 entries out of a longer data_stream
C8_Witness ==
    \E r \in Readers :
        /\ rpc[r] = "data_built"
        /\ Len(data_stream) > RecentN
        /\ Len(response_data[r].data_points) = RecentN

\* the program positions of get_metrics at which each value has been computed
HasTotal == {"m152", "m153", "m154", "metrics_built"}
HasAnomalies == {"m153", "m154", "metrics_built"}
HasTime == {"m154", "metrics_built"}
HasValue == {"metrics_built"}

\* C9: each value get_metrics has computed is that of the state the handler
\* is in, up to its return: total_points, the number of flags that are 1 (at
\* most total_points), total time / processed count (or 0), mean of all
\* values (or 0)
C9_MetricsOfOneState ==
    \A r \in Readers :
        LET m == metrics[r]
        IN  /\ rpc[r] \in HasTotal => m.total_points = Len(data_stream)
            /\ rpc[r] \in HasAnomalies =>
                   /\ m.anomalies_detected =
                          Cardinality({i \in 1..Len(anomaly_flags) : anomaly_flags[i] = 1})
                   /\ m.anomalies_detected <= m.total_points
            /\ rpc[r] \in HasTime =>
                   IF processed_points = 0
                   THEN m.average_processing_time = << 0, 1 >>
                   ELSE m.average_processing_time
                            = << total_processing_time, processed_points >>
            /\ rpc[r] \in HasValue =>
                   IF data_stream = << >>
                   THEN m.average_current_value = << 0, 1 >>
                   ELSE m.average_current_value
                            = << SumSeq(Currents(data_stream)), Len(data_stream) >>

\* metrics built over a cycle with flagged readings and processing time
C9_Witness ==
    \E r \in Readers :
        /\ rpc[r] = "metrics_built"
        /\ metrics[r].anomalies_detected > 0
        /\ metrics[r].average_processing_time[1] > 0
        /\ metrics[r].total_points > WindowSize

\* the mean recomputed from the data_points of a get_data response
MeanOfPoints(dp) ==
    IF dp = << >> THEN << 0, 1 >> ELSE << SumSeq(Currents(dp)), Len(dp) >>

\* C10 as claimed: in any state the mean of the data_points get_data returns
\* equals the average_current_value get_metrics computes
C10_MeanOfResponseIsAverage ==
    \A r \in Readers :
        rpc[r] = "data_built" =>
            RatEq(MeanOfPoints(response_data[r].data_points),
                  AverageCurrentValue(data_stream, Len(data_stream)))

\* C10 amended: they are equal whenever data_stream holds at most 100 readings
C10_MeanOfResponseIsAverageUpTo100 ==
    \A r \in Readers :
        (rpc[r] = "data_built" /\ Len(data_stream) <= RecentN) =>
            RatEq(MeanOfPoints(response_data[r].data_points),
                  AverageCurrentValue(data_stream, Len(data_stream)))

\* a response holding all 100 readings of a data_stream of varying values
C10_Witness ==
    \E r \in Readers :
        /\ rpc[r] = "data_built"
        /\ Len(data_stream) = RecentN
        /\ \E i \in 1..Len(data_stream) :
               data_stream[i].Current # data_stream[1].Current

\* load_dataset() returned normally with no rows
EmptyLoaded == dataset.ok /\ dataset.rows = << >>

\* C11 as claimed: on a source that loads and is empty the engine never
\* enters the reset transaction (it does not loop on empty data)
C11_EmptySourceFailsFast ==
    EmptyLoaded => epc \notin {"reset_lock", "reset"}

\* C12 as claimed: there is no state in which the load has failed and a
\* query completes
C12_NoServiceAfterLoadFailure ==
    epc = "exited" => \A r \in Readers : rpc[r] \notin {"data_built", "metrics_built"}

\* C13 as claimed: every step that reads or writes data_stream,
\* anomaly_flags, current_index or the processing stats is taken by a thread
\* that holds the lock
C13_AllAccessUnderLock ==
    /\ (EngineReads \cup EngineWrites) # {} => EngineThread \in lock
    /\ \A r \in Readers : ReaderReads(r) # {} => r \in lock

\* C13 amended: every write, every read by a handler, and every read by the
\* engine of a field other than current_index is under the lock; handlers
\* never read current_index, which the engine reads unlocked at lines 80, 82
C13_AccessUnderLockButCursorReads ==
    /\ EngineWrites # {} => EngineThread \in lock
    /\ (EngineReads \ {"current_index"}) # {} => EngineThread \in lock
    /\ \A r \in Readers :
           /\ ReaderReads(r) # {} => r \in lock
           /\ "current_index" \notin ReaderReads(r)

\* the engine reads current_index at the loop test while a handler holds
\* the lock and reads the processing stats
C13_Witness ==
    /\ epc = "test"
    /\ current_index > 0
    /\ \E r \in Readers : rpc[r] = "m153" /\ r \in lock

\* C14: while the engine is in its pacing delay (line 81) it does not hold
\* the lock: the lock is free or held by a handler
C14_SleepOutsideLock ==
    epc = "sleep" => (EngineThread \notin lock /\ lock \subseteq Readers)

\* a handler holds the lock and has built its response during the delay of a
\* tick that follows committed readings
C14_Witness ==
    /\ epc = "sleep"
    /\ Len(data_stream) > 0
    /\ \E r \in Readers : r \in lock /\ rpc[r] = "data_built"

\* load_dataset() returned at least one row
NonEmptySource == dataset.ok /\ dataset.rows # << >>

C16_ReplayOrder ==
    /\ [](Observable =>
             /\ Len(data_stream) <= Len(data)
             /\ \A i \in 1..Len(data_stream) : data_stream[i] = data[i])
    /\ [][epc # "reset" =>
             /\ \/ data_stream' = data_stream
                \/ /\ epc = "append"
                   /\ Len(data_stream) = Len(anomaly_flags)
                   /\ current_index < Len(data)
                   /\ data_stream' = Append(data_stream, data[current_index + 1])
             /\ \/ anomaly_flags' = anomaly_flags
                \/ /\ epc = "classify"
                   /\ Len(anomaly_flags) + 1 = Len(data_stream)
                   /\ Len(anomaly_flags') = Len(anomaly_flags) + 1
                   /\ SubSeq(anomaly_flags', 1, Len(anomaly_flags)) = anomaly_flags]_vars

\* a complete cycle of the longest source, with readings of different values
C16_Witness ==
    /\ Observable
    /\ Len(data) > RecentN
    /\ data_stream = data
    /\ data_stream[1] # data_stream[2]

C18_QueriesReadOnly ==
    [][(rpc' # rpc) =>
           UNCHANGED << data_stream, anomaly_flags, current_index,
                        total_processing_time, processed_points, data, dataset >>]_vars

\* a handler has built its response from more than 100 committed readings
C18_Witness ==
    \E r \in Readers :
        /\ rpc[r] = "data_built"
        /\ Len(data_stream) > RecentN
        /\ processed_points = Len(data_stream)

\* C19: whenever the engine is outside the lock, current_index and
\* processed_points both equal the length of data_stream
C19_CursorCountLength ==
    Observable =>
        /\ current_index = Len(data_stream)
        /\ processed_points = Len(data_stream)

\* a handler holds the lock in the middle of a cycle
C19_Witness ==
    /\ \E r \in Readers : r \in lock /\ rpc[r] = "m151"
    /\ current_index > WindowSize
    /\ current_index < Len(data)

\* sum of the values, and of their squares, of the 50 source rows ending
\* with row i
SrcSum(i) == SumSeq([k \in 1..WindowSize |-> data[i - WindowSize + k].Current])
SrcSumSq(i) ==
    SumSeq([k \in 1..WindowSize |->
        data[i - WindowSize + k].Current * data[i - WindowSize + k].Current])
SrcSpread(i) == WindowSize * SrcSumSq(i) - SrcSum(i) * SrcSum(i)

\* the flag of row i as a function of the source and the threshold alone
SrcFlag(i) ==
    IF i <= WindowSize \/ SrcSpread(i) = 0 THEN 0
    ELSE IF RatGT((WindowSize - 1)
                      * (WindowSize * data[i].Current - SrcSum(i))
                      * (WindowSize * data[i].Current - SrcSum(i)),
                  WindowSize * SrcSpread(i),
                  ZThresholdNum * ZThresholdNum, ZThresholdDen * ZThresholdDen)
         THEN 1
         ELSE 0

\* C20: the flag committed for a reading is a function of the source rows
\* and the threshold only, in every cycle and under every interleaving of
\* queries; at the end of a cycle data_stream is the source and every flag is
\* that function of its row
C20_FlagsFunctionOfSource ==
    /\ JustClassified =>
           /\ Newest <= Len(data)
           /\ Len(anomaly_flags) = Newest
           /\ data_stream[Newest] = data[Newest]
           /\ anomaly_flags[Newest] = SrcFlag(Newest)
    /\ epc = "reset_lock" =>
           /\ data_stream = data
           /\ anomaly_flags = [i \in 1..Len(data) |-> SrcFlag(i)]

\* a cycle with a flagged reading is complete, and a handler holds the lock
C20_Witness ==
    /\ epc = "reset_lock"
    /\ \E i \in 1..Len(anomaly_flags) : anomaly_flags[i] = 1
    /\ \E r \in Readers : r \in lock
====
